---------------------------- MODULE Spec2Model ----------------------------
(***************************************************************************)
(* Model of the arc-length basis helpers of autoware_trajectory            *)
(* (fill_bases, crop_bases) and of the Trajectory operations that use      *)
(* them (Builder, range assignment, crop, restore), and of the lanelet     *)
(* traversal of autoware_path_generator (get_lanelets_within_route).       *)
(*                                                                         *)
(* A C++ double is modelled as a pair <<n, d>>: for d > 0 the exact        *)
(* rational n/d in lowest terms, and for d = 0 one of the IEEE specials    *)
(* <<1,0>> = +inf, <<-1,0>> = -inf, <<0,0>> = NaN.  Rounding of finite     *)
(* results is not modelled; integer conversions (int16_t) are.             *)
(***************************************************************************)
EXTENDS Integers, Sequences, FiniteSets, TLC

VARIABLES
    pc,          \* position of the driver: which call has been made
    x,           \* argument x of fill_bases / crop_bases
    min_points,  \* argument min_points of fill_bases
    start,       \* argument start of crop_bases
    end,         \* argument end of crop_bases
    outcome,     \* how the call ended
    result,      \* the returned vector
    points,      \* argument of Builder.build
    trajectory,  \* the std::optional<Trajectory> held by the caller
    hist,        \* the writes and crops made since the build, in call order
    before,      \* the trajectory as it was before the last write or crop
    planner_data,       \* argument planner_data of get_lanelets_within_route
    lanelet,            \* argument lanelet
    arc_length,         \* arc_coordinates.length of current_pose on lanelet
    backward_distance,  \* argument backward_distance
    forward_distance,   \* argument forward_distance
    distance,           \* argument distance of the traversal in progress
    current_lanelet,    \* local current_lanelet of the traversal
    length_,            \* local length of the traversal
    lanelets,           \* local lanelets of the traversal
    backward_lanelets,  \* what get_lanelets_within_route_up_to returned
    ok,                 \* rclcpp::ok()
    visited             \* the (current_lanelet, length) pairs the loop head has seen

routeVars == <<planner_data, lanelet, arc_length, backward_distance,
               forward_distance, distance, current_lanelet, length_, lanelets,
               backward_lanelets, ok, visited>>

baseVars == <<x, min_points, start, end, points, trajectory, hist, before>>

vars == <<pc, x, min_points, start, end, outcome, result, points, trajectory,
          hist, before, routeVars>>

---------------------------------------------------------------------------
(* Bounds of the model.                                                    *)

MaxCoord == 4
MaxLen == 3
MaxMinPoints == 6
MaxPos == 2
MaxPoints == 3

---------------------------------------------------------------------------
(* Doubles.                                                                *)

Abs(k) == IF k < 0 THEN -k ELSE k

Sgn(k) == IF k < 0 THEN -1 ELSE IF k > 0 THEN 1 ELSE 0

Max(a, b) == IF a < b THEN b ELSE a

RECURSIVE GCD(_, _)
GCD(a, b) == IF b = 0 THEN a ELSE GCD(b, a % b)

\* the rational n/d, d # 0, in lowest terms with a positive denominator
Norm(n, d) ==
    LET g == GCD(Abs(n), Abs(d))
    IN  <<Sgn(d) * (n \div g), Abs(d) \div g>>

D(k) == <<k, 1>>

NaN == <<0, 0>>

IsFinite(a) == a[2] > 0

DNeg(a) == <<-a[1], a[2]>>

\* a + b
DAdd(a, b) ==
    IF IsFinite(a) /\ IsFinite(b) THEN Norm(a[1] * b[2] + b[1] * a[2], a[2] * b[2])
    ELSE IF a = NaN \/ b = NaN THEN NaN
    ELSE IF IsFinite(a) THEN b
    ELSE IF IsFinite(b) THEN a
    ELSE IF a = b THEN a ELSE NaN

\* a - b
DSub(a, b) == DAdd(a, DNeg(b))

\* a / k for an integer k converted to double (k = 0 converts to +0.0)
DDivInt(a, k) ==
    IF IsFinite(a)
    THEN IF k = 0 THEN <<Sgn(a[1]), 0>> ELSE Norm(a[1] * Sgn(k), a[2] * Abs(k))
    ELSE IF k < 0 THEN DNeg(a) ELSE a

\* k * a for an integer k converted to double
DMulInt(k, a) ==
    IF IsFinite(a) THEN Norm(k * a[1], a[2]) ELSE <<Sgn(k) * a[1], 0>>

Floor(a) == a[1] \div a[2]

\* a < b
DLess(a, b) ==
    IF a = NaN \/ b = NaN THEN FALSE
    ELSE IF ~IsFinite(a) THEN a[1] < 0 /\ b # a
    ELSE IF ~IsFinite(b) THEN b[1] > 0
    ELSE \/ Floor(a) < Floor(b)
         \/ /\ Floor(a) = Floor(b)
            /\ (a[1] % a[2]) * b[2] < (b[1] % b[2]) * a[2]

\* a == b
DEq(a, b) == a # NaN /\ a = b

\* a <= b
DLeq(a, b) == DLess(a, b) \/ DEq(a, b)

StrictlyIncreasing(s) == \A i \in 1..(Len(s) - 1) : DLess(s[i], s[i + 1])

---------------------------------------------------------------------------
(* fill_bases.                                                             *)

\* static_cast<int16_t>(v) of a size_t v
ToInt16(v) ==
    LET m == v % 65536
    IN  IF m >= 32768 THEN m - 65536 ELSE m

\* points_per_gap without the fill_n that hands out the remainder
points_per_gap_NoRemainder(original_size, min_pts, i) ==
    (min_pts - original_size) \div (original_size - 1)

\* points_per_gap[i], i = 0 .. num_gaps - 1, after the fill_n
points_per_gap(original_size, min_pts, i) ==
    LET points_to_add == min_pts - original_size
        num_gaps == original_size - 1
    IN  IF i < points_to_add % num_gaps
        THEN (points_to_add \div num_gaps) + 1
        ELSE points_to_add \div num_gaps

\* GapPoints with step = end - start, the division left out
GapPoints_NoDivision(gstart, gend, m) ==
    [j \in 1..m |-> DAdd(gstart, DMulInt(ToInt16(j), DSub(gend, gstart)))]

\* the points the inner loop pushes for one gap
GapPoints(gstart, gend, m) ==
    LET step == DDivInt(DSub(gend, gstart), ToInt16(m + 1))
    IN  [j \in 1..m |-> DAdd(gstart, DMulInt(ToInt16(j), step))]

\* the outer loop from index i (1-based) on, and the final push_back
RECURSIVE FillFrom(_, _, _)
FillFrom(xs, min_pts, i) ==
    IF i >= Len(xs) THEN <<xs[Len(xs)]>>
    ELSE <<xs[i]>>
         \o GapPoints(xs[i], xs[i + 1], points_per_gap(Len(xs), min_pts, i - 1))
         \o FillFrom(xs, min_pts, i + 1)

\* The call's outcomes, as a set of [outcome, result] records.
\*   original_size >= min_points: x is returned.
\*   original_size = 0: num_gaps wraps to SIZE_MAX and the vector constructor
\*     throws std::length_error.
\*   original_size = 1: points_to_add / 0 is undefined behaviour; the build
\*     either traps (SIGFPE) or, where integer division does not trap, goes
\*     on to fill_n, which writes points_to_add elements through the begin()
\*     of an empty vector.  Neither returns a vector.
fill_bases(xs, min_pts) ==
    IF Len(xs) >= min_pts THEN {[outcome |-> "returned", result |-> xs]}
    ELSE IF Len(xs) = 0 THEN {[outcome |-> "length_error", result |-> <<>>]}
    ELSE IF Len(xs) = 1
         THEN {[outcome |-> "sigfpe", result |-> <<>>],
               [outcome |-> "out_of_bounds_write", result |-> <<>>]}
    ELSE {[outcome |-> "returned", result |-> FillFrom(xs, min_pts, 1)]}

---------------------------------------------------------------------------
(* crop_bases.                                                             *)

Contains(xs, v) == \E i \in 1..Len(xs) : DEq(xs[i], v)

InRange(v, lo, hi) == DLeq(lo, v) /\ DLeq(v, hi)

\* crop_bases copying the half-open range [start, end)
crop_bases_HalfOpen(xs, lo, hi) ==
    (IF Contains(xs, lo) THEN <<>> ELSE <<lo>>)
    \o SelectSeq(xs, LAMBDA v : DLeq(lo, v) /\ DLess(v, hi))
    \o (IF Contains(xs, hi) THEN <<>> ELSE <<hi>>)

\* crop_bases pushing start without looking for it in x
crop_bases_AlwaysStart(xs, lo, hi) ==
    <<lo>>
    \o SelectSeq(xs, LAMBDA v : InRange(v, lo, hi))
    \o (IF Contains(xs, hi) THEN <<>> ELSE <<hi>>)

crop_bases(xs, lo, hi) ==
    (IF Contains(xs, lo) THEN <<>> ELSE <<lo>>)
    \o SelectSeq(xs, LAMBDA v : InRange(v, lo, hi))
    \o (IF Contains(xs, hi) THEN <<>> ELSE <<hi>>)

---------------------------------------------------------------------------
(* Inputs and the idle values of the variables a specification leaves     *)
(* alone.                                                                  *)

\* the strictly increasing sequences of integer doubles of length 0..maxlen
\* with elements in lo..hi
RECURSIVE IncSeqsFrom(_, _, _)
IncSeqsFrom(lo, hi, maxlen) ==
    IF maxlen = 0 THEN {<<>>}
    ELSE {<<>>} \cup
         UNION {{<<D(k)>> \o t : t \in IncSeqsFrom(k + 1, hi, maxlen - 1)} :
                k \in lo..hi}

IncSeqs == IncSeqsFrom(0, MaxCoord, MaxLen)

NoTrajectory == [valid |-> FALSE, bases |-> <<>>, xs |-> <<>>, lane_ids |-> <<>>,
                 velocity |-> <<>>]

NoCrop == [valid |-> FALSE]

IdleBases == x = <<>> /\ min_points = 0 /\ start = D(0) /\ end = D(0)
             /\ outcome = "none" /\ result = <<>>

IdleTrajectory == points = <<>> /\ trajectory = NoTrajectory /\ hist = <<>>
                  /\ before = NoCrop

NoPlannerData == [route_lanelets |-> {}, start_lanelets |-> {}, goal_lanelets |-> {},
                  preferred_lanelets |-> <<>>, following |-> <<>>, length2d |-> <<>>]

IdleRoute == planner_data = NoPlannerData /\ lanelet = 0 /\ arc_length = 0
             /\ backward_distance = 0 /\ forward_distance = 0 /\ distance = 0
             /\ current_lanelet = 0 /\ length_ = 0 /\ lanelets = <<>>
             /\ backward_lanelets = <<>> /\ ok = TRUE /\ visited = {}

---------------------------------------------------------------------------
(* Specification SpecFill: one call of fill_bases on bounded inputs.       *)

\* min_points values at which one gap of a two-element x receives
\* 32766, 32767 and 65535 points
LargeMinPoints == {32768, 32769, 65537}

MinPointsFor(xs) ==
    (0..MaxMinPoints) \cup (IF Len(xs) = 2 /\ xs[1] = D(0) THEN LargeMinPoints ELSE {})

InitFill ==
    /\ pc = "fill_call"
    /\ x \in IncSeqs
    /\ min_points \in MinPointsFor(x)
    /\ start = D(0) /\ end = D(0)
    /\ outcome = "none" /\ result = <<>>
    /\ IdleTrajectory
    /\ IdleRoute

FillBases ==
    /\ pc = "fill_call"
    /\ \E r \in fill_bases(x, min_points) :
          /\ outcome' = r.outcome
          /\ result' = r.result
    /\ pc' = "fill_done"
    /\ UNCHANGED <<x, min_points, start, end, points, trajectory, hist, before, routeVars>>

NextFill == FillBases

SpecFill == InitFill /\ [][NextFill]_vars

---------------------------------------------------------------------------
(* Specification SpecCropBases: one call of crop_bases on bounded inputs.  *)

\* start and end: the half-integers from -1/2 to MaxCoord + 1/2
CropArgs == {Norm(k, 2) : k \in (-1)..(2 * MaxCoord + 1)}

InitCropBases ==
    /\ pc = "crop_call"
    /\ x \in IncSeqs
    /\ start \in CropArgs
    /\ end \in CropArgs
    /\ min_points = 0
    /\ outcome = "none" /\ result = <<>>
    /\ IdleTrajectory
    /\ IdleRoute

CropBases ==
    /\ pc = "crop_call"
    /\ outcome' = "returned"
    /\ result' = crop_bases(x, start, end)
    /\ pc' = "crop_done"
    /\ UNCHANGED <<x, min_points, start, end, points, trajectory, hist, before, routeVars>>

NextCropBases == CropBases

SpecCropBases == InitCropBases /\ [][NextCropBases]_vars

---------------------------------------------------------------------------
(* Trajectory<PathPointWithLaneId>: Builder, longitudinal_velocity_mps     *)
(* assignment, crop, compute and restore.  The class is exercised by the   *)
(* tests in util.cpp; its operations follow sections 4.2 - 4.5 of the      *)
(* design.  A point is [x, lane_id] on a line, so that the distance        *)
(* between consecutive points is the exact double |x2 - x1|.               *)

\* a * b and a / b for finite a, b (b # 0)
DMul(a, b) == Norm(a[1] * b[1], a[2] * b[2])

DDiv(a, b) == Norm(a[1] * b[2], a[2] * b[1])

DAbs(a) == <<Abs(a[1]), a[2]>>

\* the minimum number of bases the Builder fits its interpolators over
BuilderMinPoints == 4

\* path_point_with_lane_id(x, y, lane_id): longitudinal_velocity_mps is left 0
path_point_with_lane_id(px, lane_id) ==
    [x |-> px, lane_id |-> lane_id, longitudinal_velocity_mps |-> D(0)]

\* cumulative distance along the points
RECURSIVE ArcLengths(_, _)
ArcLengths(pts, n) ==
    IF n = 1 THEN <<D(0)>>
    ELSE LET prev == ArcLengths(pts, n - 1)
         IN  Append(prev, DAdd(prev[n - 1], DAbs(DSub(pts[n].x, pts[n - 1].x))))

\* index of the last basis not after s (the first basis when s is before all)
SegIndex(bases, s) ==
    LET I == {i \in 1..Len(bases) : DLeq(bases[i], s)}
    IN  IF I = {} THEN 1 ELSE CHOOSE i \in I : \A k \in I : k <= i

\* piecewise-constant interpolation (lane ids, velocity overlay)
Hold(bases, values, s) == values[SegIndex(bases, s)]

\* piecewise-linear interpolation (position)
Lerp(bases, values, s) ==
    LET i == SegIndex(bases, s)
    IN  IF i = Len(bases) \/ bases[i] = s THEN values[i]
        ELSE DAdd(values[i],
                  DMul(DSub(s, bases[i]),
                       DDiv(DSub(values[i + 1], values[i]),
                            DSub(bases[i + 1], bases[i]))))

length(t) == t.bases[Len(t.bases)]

Clamp(s, lo, hi) == IF DLess(s, lo) THEN lo ELSE IF DLess(hi, s) THEN hi ELSE s

\* trajectory->compute(s)
compute(t, s) ==
    LET c == Clamp(s, t.bases[1], length(t))
    IN  [x |-> Lerp(t.bases, t.xs, c),
         lane_id |-> Hold(t.bases, t.lane_ids, c),
         longitudinal_velocity_mps |-> Hold(t.bases, t.velocity, c)]

\* the fields of t sampled over new bases nb, given in t's arc-length
Resample(t, nb) ==
    [valid |-> TRUE,
     bases |-> nb,
     xs |-> [k \in 1..Len(nb) |-> Lerp(t.bases, t.xs, nb[k])],
     lane_ids |-> [k \in 1..Len(nb) |-> Hold(t.bases, t.lane_ids, nb[k])],
     velocity |-> [k \in 1..Len(nb) |-> Hold(t.bases, t.velocity, nb[k])]]

\* what fill_bases returns when it returns
Filled(bases, n) == (CHOOSE r \in fill_bases(bases, n) : r.outcome = "returned").result

\* Trajectory::Builder{}.build(points): nullopt for fewer than 2 points
build(pts) ==
    IF Len(pts) < 2 THEN NoTrajectory
    ELSE LET raw == [valid |-> TRUE,
                     bases |-> ArcLengths(pts, Len(pts)),
                     xs |-> [k \in 1..Len(pts) |-> pts[k].x],
                     lane_ids |-> [k \in 1..Len(pts) |-> pts[k].lane_id],
                     velocity |-> [k \in 1..Len(pts) |->
                                      pts[k].longitudinal_velocity_mps]]
         IN  Resample(raw, Filled(raw.bases, BuilderMinPoints))

\* longitudinal_velocity_mps() = v
assign(t, v) == [t EXCEPT !.velocity = [k \in 1..Len(t.bases) |-> v]]

ValidRange(t, a, b) == DLeq(t.bases[1], a) /\ DLess(a, b) /\ DLeq(b, length(t))

\* longitudinal_velocity_mps().range(a, b).set(v): the bases of the write are
\* crop_bases(bases, a, b); they are spliced into the bases and set to v
range_set(t, a, b, v) ==
    LET written == crop_bases(t.bases, a, b)
        nb == SelectSeq(t.bases, LAMBDA s : DLess(s, written[1]))
              \o written
              \o SelectSeq(t.bases, LAMBDA s : DLess(written[Len(written)], s))
        r == Resample(t, nb)
    IN  [r EXCEPT !.velocity =
            [k \in 1..Len(nb) |->
                IF Contains(written, nb[k]) THEN v ELSE r.velocity[k]]]

ValidCrop(t, s, len) ==
    DLeq(D(0), s) /\ DLess(D(0), len) /\ DLeq(DAdd(s, len), length(t))

\* crop(start, length): restrict to [start, start + length], then re-base
crop(t, s, len) ==
    LET r == Resample(t, crop_bases(t.bases, s, DAdd(s, len)))
    IN  [r EXCEPT !.bases = [k \in 1..Len(r.bases) |-> DSub(r.bases[k], s)]]

\* restore(min_points): the points at the bases densified to min_points
restore(t, n) ==
    LET nb == Filled(t.bases, n)
    IN  [k \in 1..Len(nb) |-> compute(t, nb[k])]

---------------------------------------------------------------------------
(* Inputs of the trajectory specifications.                                *)

\* the velocities written in the tests
Velocities == {D(5), D(10)}

\* lane id 0 on the first half of the points and 1 on the rest
LaneOf(i, n) == IF 2 * i <= n THEN 0 ELSE 1

PointsOf(xs) ==
    [i \in 1..Len(xs) |-> path_point_with_lane_id(xs[i], LaneOf(i, Len(xs)))]

\* the ten points of TrajectoryTest::SetUp, laid on a line at their
\* arc-lengths (to one decimal), with their lane ids
TestPoints ==
    LET at == <<0, 19, 34, 54, 68, 88, 106, 119, 136, 150>>
    IN  [i \in 1..10 |-> path_point_with_lane_id(Norm(at[i], 10), IF i <= 3 THEN 0 ELSE 1)]

BuildInputs == {PointsOf(xs) : xs \in IncSeqsFrom(0, MaxPos, MaxPoints)} \cup {TestPoints}

\* arc-lengths the tests pass as range and crop arguments
ThirdOf(t) == DDivInt(length(t), 3)

HalfOf(t) == DDivInt(length(t), 2)

TwoThirdsOf(t) == DDivInt(DMulInt(2, length(t)), 3)

RangeStarts(t) == {D(0), ThirdOf(t), D(4)}

RangeEnds(t) == {TwoThirdsOf(t), length(t)}

\* restore(0), and a restore that has to densify
RestoreCounts == {0, 2 * BuilderMinPoints}

CropStarts(t) == {D(0), ThirdOf(t), HalfOf(t)}

CropLengths(t) == {D(1), ThirdOf(t), length(t)}

InitTrajectory ==
    /\ pc = "build_call"
    /\ points \in BuildInputs
    /\ trajectory = NoTrajectory
    /\ hist = <<>>
    /\ before = NoCrop
    /\ IdleBases
    /\ IdleRoute

Build ==
    /\ pc = "build_call"
    /\ trajectory' = build(points)
    /\ pc' = IF Len(points) < 2 THEN "build_failed" ELSE "built"
    /\ UNCHANGED <<x, min_points, start, end, outcome, result, points, hist, before, routeVars>>

---------------------------------------------------------------------------
(* Specification SpecOverlay: build, then writes to the velocity field,    *)
(* then restore.                                                           *)

MaxWrites == 2

Assign ==
    /\ pc = "built" /\ Len(hist) < MaxWrites
    /\ \E v \in Velocities :
          /\ trajectory' = assign(trajectory, v)
          /\ hist' = Append(hist, [op |-> "assign", a |-> trajectory.bases[1],
                                   b |-> length(trajectory), v |-> v])
    /\ before' = [valid |-> TRUE, trajectory |-> trajectory]
    /\ outcome' = "returned"
    /\ UNCHANGED <<pc, x, min_points, start, end, result, points, routeVars>>

RangeSet ==
    /\ pc = "built" /\ Len(hist) < MaxWrites
    /\ \E a \in RangeStarts(trajectory), b \in RangeEnds(trajectory), v \in Velocities :
          /\ start' = a /\ end' = b
          /\ IF ValidRange(trajectory, a, b)
             THEN /\ trajectory' = range_set(trajectory, a, b, v)
                  /\ hist' = Append(hist, [op |-> "range", a |-> a, b |-> b, v |-> v])
                  /\ before' = [valid |-> TRUE, trajectory |-> trajectory]
                  /\ outcome' = "returned"
             ELSE /\ outcome' = "range_error"
                  /\ UNCHANGED <<trajectory, hist, before>>
    /\ UNCHANGED <<pc, x, min_points, result, points, routeVars>>

Restore ==
    /\ pc = "built"
    /\ \E n \in RestoreCounts :
          /\ min_points' = n
          /\ result' = restore(trajectory, n)
    /\ pc' = "restored"
    /\ outcome' = "returned"
    /\ UNCHANGED <<x, start, end, points, trajectory, hist, before, routeVars>>

NextOverlay == Build \/ Assign \/ RangeSet \/ Restore

SpecOverlay == InitTrajectory /\ [][NextOverlay]_vars

---------------------------------------------------------------------------
(* Specification SpecCrop: build, then crops.                              *)

MaxCrops == 2

Crop ==
    /\ pc = "built" /\ Len(hist) < MaxCrops
    /\ \E s \in CropStarts(trajectory), len \in CropLengths(trajectory) :
          /\ start' = s /\ end' = len
          /\ IF ValidCrop(trajectory, s, len)
             THEN /\ trajectory' = crop(trajectory, s, len)
                  /\ hist' = Append(hist, [op |-> "crop", a |-> s, b |-> len, v |-> D(0)])
                  /\ before' = [valid |-> TRUE, trajectory |-> trajectory]
                  /\ outcome' = "returned"
             ELSE /\ outcome' = "range_error"
                  /\ UNCHANGED <<trajectory, hist, before>>
    /\ UNCHANGED <<pc, x, min_points, result, points, routeVars>>

NextCrop == Build \/ Crop

SpecCrop == InitTrajectory /\ [][NextCrop]_vars

---------------------------------------------------------------------------
(* Properties of fill_bases (SpecFill).                                    *)

FillDone == pc = "fill_done"

\* C1: for a strictly increasing x with at least 2 elements and any
\* min_points, fill_bases returns a vector of exactly
\* max(x.size(), min_points) elements, and x itself when
\* x.size() >= min_points.
C1_FillLength ==
    (FillDone /\ Len(x) >= 2 /\ StrictlyIncreasing(x)) =>
        /\ outcome = "returned"
        /\ Len(result) = Max(Len(x), min_points)
        /\ (Len(x) >= min_points => result = x)

\* a call that had to add points, with a remainder to hand out
C1_Witness ==
    /\ FillDone /\ Len(x) >= 3 /\ min_points > Len(x)
    /\ (min_points - Len(x)) % (Len(x) - 1) # 0
    /\ Len(result) = min_points

\* s occurs in t from index `from` on as a subsequence (leftmost matching)
RECURSIVE EmbedsFrom(_, _, _, _)
EmbedsFrom(s, t, i, from) ==
    IF i > Len(s) THEN TRUE
    ELSE LET J == {j \in from..Len(t) : t[j] = s[i]}
         IN  /\ J # {}
             /\ EmbedsFrom(s, t, i + 1, (CHOOSE j \in J : \A k \in J : j <= k) + 1)

\* C2: for a strictly increasing x with at least 2 elements and any
\* min_points, the result of fill_bases is strictly increasing, starts and
\* ends with the first and last element of x, and holds every element of x
\* in the original order.
C2_FillKeepsPointsIncreasing ==
    (FillDone /\ Len(x) >= 2 /\ StrictlyIncreasing(x)) =>
        /\ outcome = "returned"
        /\ StrictlyIncreasing(result)
        /\ result[1] = x[1]
        /\ result[Len(result)] = x[Len(x)]
        /\ EmbedsFrom(x, result, 1, 1)

\* C9: for x of length 0 or 1 and any min_points, fill_bases either returns
\* x unmodified or signals an error (throws); nothing else happens.
C9_FillShortFailsCleanly ==
    (FillDone /\ Len(x) < 2) =>
        \/ outcome = "returned" /\ result = x
        \/ outcome = "length_error"

\* the number of points the claim gives gap i (0-based)
ClaimedCount(xs, n, i) ==
    LET g == Len(xs) - 1
        k == n - Len(xs)
    IN  IF i < k % g THEN (k \div g) + 1 ELSE k \div g

\* the points the claim puts into a gap receiving m points
ClaimedGap(xi, xj, m) ==
    [j \in 1..m |-> DAdd(xi, DDivInt(DMulInt(j, DSub(xj, xi)), m + 1))]

RECURSIVE ClaimedFrom(_, _, _)
ClaimedFrom(xs, n, i) ==
    IF i >= Len(xs) THEN <<xs[Len(xs)]>>
    ELSE <<xs[i]>> \o ClaimedGap(xs[i], xs[i + 1], ClaimedCount(xs, n, i - 1))
         \o ClaimedFrom(xs, n, i + 1)

\* C10: with g = x.size() - 1 gaps and k = min_points - x.size() > 0 points
\* to add, gap i receives k div g + 1 points if i < k mod g and k div g
\* otherwise, and the j-th point of a gap [a, b] receiving m points is
\* a + j * (b - a) / (m + 1), for every m.
C10_FillEvenSpacing ==
    (FillDone /\ Len(x) >= 2 /\ StrictlyIncreasing(x) /\ min_points > Len(x)) =>
        /\ outcome = "returned"
        /\ result = ClaimedFrom(x, min_points, 1)

---------------------------------------------------------------------------
(* Properties of crop_bases (SpecCropBases).                               *)

CropDone == pc = "crop_done"

StartsAndEndsWith(s, a, b) == Len(s) >= 1 /\ s[1] = a /\ s[Len(s)] = b

\* C3 as stated: for every strictly increasing x and every start, end the
\* result of crop_bases begins with start and ends with end.
C3_CropEndpointsAnyOrder ==
    (CropDone /\ StrictlyIncreasing(x)) => StartsAndEndsWith(result, start, end)

\* C3 (amended): for every strictly increasing x and every start <= end
\* (each in x, inside a gap of x or outside its span) the result of
\* crop_bases begins with start and ends with end.
C3_CropEndpoints ==
    (CropDone /\ StrictlyIncreasing(x) /\ DLeq(start, end)) =>
        StartsAndEndsWith(result, start, end)

\* start inside a gap of x, end an element of x, points of x in between
C3_Witness ==
    /\ CropDone /\ DLess(start, end)
    /\ ~Contains(x, start) /\ Contains(x, end)
    /\ Len(x) >= 2 /\ DLess(x[1], start)
    /\ Len(result) >= 3

NotEndpoint(v) == ~DEq(v, start) /\ ~DEq(v, end)

CropKeepsInterior ==
    SelectSeq(result, NotEndpoint)
        = SelectSeq(x, LAMBDA v : InRange(v, start, end) /\ NotEndpoint(v))

\* C4 as stated: for every strictly increasing x and every start, end the
\* result of crop_bases is strictly increasing and, start and end aside,
\* holds exactly the elements of x in [start, end] in order.
C4_CropNoDuplicateAnyOrder ==
    (CropDone /\ StrictlyIncreasing(x)) =>
        StrictlyIncreasing(result) /\ CropKeepsInterior

\* C4 (amended): the same for every start < end.
C4_CropNoDuplicate ==
    (CropDone /\ StrictlyIncreasing(x) /\ DLess(start, end)) =>
        StrictlyIncreasing(result) /\ CropKeepsInterior

\* start and end both elements of x with an element of x between them
C4_Witness ==
    /\ CropDone /\ DLess(start, end)
    /\ Contains(x, start) /\ Contains(x, end)
    /\ Len(result) = 3

---------------------------------------------------------------------------
(* Properties of the Trajectory operations (SpecOverlay, SpecCrop).        *)

SetOf(s) == {s[i] : i \in 1..Len(s)}

LastOp == hist[Len(hist)]

ExpectedVelocity(s) ==
    LET covering == {i \in 1..Len(hist) : InRange(s, hist[i].a, hist[i].b)}
    IN  IF covering = {} THEN D(0)
        ELSE hist[CHOOSE i \in covering : \A k \in covering : k <= i].v

TestOverlay ==
    /\ Len(hist) = 2
    /\ hist[1].op = "assign" /\ hist[1].v = D(10)
    /\ hist[2].op = "range" /\ hist[2].v = D(5)
    /\ hist[2].a = ThirdOf(trajectory) /\ hist[2].b = TwoThirdsOf(trajectory)

\* C6: after any sequence of assignments and range assignments the velocity
\* at every basis is the value of the last write that covered it (so a
\* range assignment changes nothing outside its range); after
\* velocity = 10 and range(L/3, 2L/3).set(5) the velocity is 10 at 0 and at
\* L and 5 at L/2.
C6_LastWriteWins ==
    trajectory.valid =>
        /\ \A k \in 1..Len(trajectory.bases) :
              trajectory.velocity[k] = ExpectedVelocity(trajectory.bases[k])
        /\ TestOverlay =>
              /\ compute(trajectory, D(0)).longitudinal_velocity_mps = D(10)
              /\ compute(trajectory, HalfOf(trajectory)).longitudinal_velocity_mps = D(5)
              /\ compute(trajectory, length(trajectory)).longitudinal_velocity_mps = D(10)

\* the overlay of the manipulate_velocity test, on a trajectory that already
\* had a basis at 2L/3
C6_Witness ==
    /\ trajectory.valid /\ TestOverlay
    /\ Contains(before.trajectory.bases, TwoThirdsOf(trajectory))
    /\ compute(trajectory, HalfOf(trajectory)).longitudinal_velocity_mps = D(5)

TestRestore ==
    /\ pc = "restored" /\ points = TestPoints /\ min_points = 0
    /\ Len(hist) = 1 /\ LastOp.op = "range"
    /\ LastOp.a = D(4) /\ LastOp.b = length(trajectory) /\ LastOp.v = D(5)

\* C8: after range(a, b).set(v) the bases are the old bases and a and b: a
\* basis is added for a, and for b, exactly when it was not one, and none
\* is removed; on the 10-point test trajectory range(4.0, length()).set(5.0)
\* and restore(0) give 11 points.
C8_RangeSetAddsBoundaries ==
    (trajectory.valid /\ hist # <<>> /\ LastOp.op = "range") =>
        LET old == before.trajectory.bases
        IN  /\ SetOf(trajectory.bases) = SetOf(old) \cup {LastOp.a, LastOp.b}
            /\ Len(trajectory.bases) =
                  Len(old) + (IF Contains(old, LastOp.a) THEN 0 ELSE 1)
                           + (IF Contains(old, LastOp.b) THEN 0 ELSE 1)
            /\ TestRestore => Len(result) = 11

\* the restore test: one basis added at 4.0, none at length()
C8_Witness ==
    /\ TestRestore /\ trajectory.valid
    /\ Len(before.trajectory.bases) = 10
    /\ Len(result) = 11

---------------------------------------------------------------------------
(* get_lanelets_within_route and its traversals (autoware_path_generator). *)
(* A lanelet is its id; lengths and distances are whole metres.            *)

Lanelets == {1, 2, 3}

Nullopt == [has_value |-> FALSE]

Some(v) == [has_value |-> TRUE, value |-> v]

\* exists(vec, item), for a vector kept as a set or as a sequence
exists(vec, item) == item \in vec

Elements(seq) == {seq[i] : i \in 1..Len(seq)}

Reverse(seq) == [i \in 1..Len(seq) |-> seq[Len(seq) + 1 - i]]

\* the ascending sequence of the elements of a set of ids
RECURSIVE Ascending(_)
Ascending(S) ==
    IF S = {} THEN <<>>
    ELSE LET m == CHOOSE v \in S : \A w \in S : v <= w
         IN  <<m>> \o Ascending(S \ {m})

\* routing_graph_ptr->following(l)
following(pd, l) == pd.following[l]

\* routing_graph_ptr->previous(l): the lanelets l follows, by ascending id
previous(pd, l) == Ascending({p \in Lanelets : l \in Elements(pd.following[p])})

\* lanelet::utils::getLaneletLength2d(l)
getLaneletLength2d(pd, l) == pd.length2d[l]

\* std::find_if(..., exists(route_lanelets, l)): the first lanelet of seq
\* that is in the route
FindInRoute(pd, seq) ==
    LET I == {i \in 1..Len(seq) : exists(pd.route_lanelets, seq[i])}
    IN  IF I = {} THEN Nullopt ELSE Some(seq[CHOOSE i \in I : \A k \in I : i <= k])

\* get_previous_lanelet_within_route without the start_lanelets test
get_previous_lanelet_within_route_NoStartTest(l, pd) ==
    FindInRoute(pd, previous(pd, l))

get_previous_lanelet_within_route(l, pd) ==
    IF exists(pd.start_lanelets, l) THEN Nullopt
    ELSE IF previous(pd, l) = <<>> THEN Nullopt
    ELSE FindInRoute(pd, previous(pd, l))

get_next_lanelet_within_route(l, pd) ==
    IF pd.preferred_lanelets = <<>> THEN Nullopt
    ELSE IF exists(pd.goal_lanelets, l) THEN Nullopt
    ELSE IF \/ following(pd, l) = <<>>
            \/ following(pd, l)[1] = pd.preferred_lanelets[1]
         THEN Nullopt
    ELSE FindInRoute(pd, following(pd, l))

---------------------------------------------------------------------------
(* Specification SpecRoute: one call of get_lanelets_within_route, its     *)
(* two while loops taken one iteration at a time.                          *)

MaxDistance == 2

\* the lanelets a traversal may collect before the model stops following it
MaxCollected == 4

\* the sequences of at most 2 distinct elements of S
ShortSeqs(S) ==
    {<<>>} \cup {<<a>> : a \in S} \cup {p \in S \X S : p[1] # p[2]}

\* every routing graph over Lanelets in which no lanelet follows itself
RoutingGraphs ==
    {f \in [Lanelets -> ShortSeqs(Lanelets)] : \A l \in Lanelets : l \notin Elements(f[l])}

\* lanelets of length 0 or 1, all alike
LaneletLengths == {[l \in Lanelets |-> n] : n \in {0, 1}}

\* The queried lanelet is 1 and lanelets 2 and 3 are interchangeable, so
\* the first preferred lanelet is 1 or 2.  The route holds lanelet 1 (with
\* any of the others) or is the other two.
Routes == {R \in SUBSET Lanelets : 1 \in R} \cup {Lanelets \ {1}}

PlannerDatas ==
    {[route_lanelets |-> R, start_lanelets |-> S, goal_lanelets |-> G,
      preferred_lanelets |-> P, following |-> f, length2d |-> len] :
        R \in Routes,
        S \in {{}} \cup {{l} : l \in Lanelets},
        G \in {{}} \cup {{l} : l \in Lanelets},
        P \in {<<>>, <<1>>, <<2>>},
        f \in RoutingGraphs,
        len \in LaneletLengths}

InitRoute ==
    /\ pc = "route_call"
    /\ planner_data \in PlannerDatas
    /\ lanelet = 1
    /\ arc_length \in {0, planner_data.length2d[lanelet]}
    /\ backward_distance \in 0..MaxDistance
    /\ forward_distance = backward_distance
    /\ distance = 0 /\ current_lanelet = 0 /\ length_ = 0 /\ lanelets = <<>>
    /\ backward_lanelets = <<>> /\ ok = TRUE /\ visited = {}
    /\ IdleBases
    /\ IdleTrajectory

\* get_lanelets_within_route up to the first loop head (lines 48-56, 77-83)
RouteEnter ==
    /\ pc = "route_call"
    /\ IF ~exists(planner_data.route_lanelets, lanelet)
       THEN /\ outcome' = "nullopt"
            /\ pc' = "route_done"
            /\ UNCHANGED <<distance, current_lanelet, length_, lanelets, visited>>
       ELSE /\ distance' = backward_distance - arc_length
            /\ current_lanelet' = lanelet
            /\ length_' = 0
            /\ lanelets' = <<>>
            /\ visited' = {}
            /\ pc' = "up_to_loop"
            /\ UNCHANGED outcome
    /\ UNCHANGED <<result, baseVars, planner_data, lanelet, arc_length,
                   backward_distance, forward_distance, backward_lanelets, ok>>

\* one iteration of the loop of get_lanelets_within_route_up_to (85-94)
UpToStep ==
    /\ pc = "up_to_loop"
    /\ Len(lanelets) < MaxCollected
    /\ ok /\ length_ < distance
    /\ LET prev_lanelet == get_previous_lanelet_within_route(current_lanelet, planner_data)
       IN  /\ prev_lanelet.has_value
           /\ lanelets' = Append(lanelets, prev_lanelet.value)
           /\ current_lanelet' = prev_lanelet.value
           /\ length_' = length_ + getLaneletLength2d(planner_data, prev_lanelet.value)
    /\ visited' = visited \cup {<<current_lanelet, length_>>}
    /\ UNCHANGED <<pc, outcome, result, baseVars, planner_data, lanelet, arc_length,
                   backward_distance, forward_distance, distance, backward_lanelets, ok>>

\* leaving that loop, and get_lanelets_within_route up to the second loop
\* head (96-97, 57-62, 103-109)
UpToExit ==
    /\ pc = "up_to_loop"
    /\ \/ ~(ok /\ length_ < distance)
       \/ ~get_previous_lanelet_within_route(current_lanelet, planner_data).has_value
    /\ backward_lanelets' = Reverse(lanelets)
    /\ distance' = forward_distance
                      - (getLaneletLength2d(planner_data, lanelet) - arc_length)
    /\ current_lanelet' = lanelet
    /\ length_' = 0
    /\ lanelets' = <<>>
    /\ visited' = {}
    /\ pc' = "after_loop"
    /\ UNCHANGED <<outcome, result, baseVars, planner_data, lanelet, arc_length,
                   backward_distance, forward_distance, ok>>

\* one iteration of the loop of get_lanelets_within_route_after (111-120)
AfterStep ==
    /\ pc = "after_loop"
    /\ Len(lanelets) < MaxCollected
    /\ ok /\ length_ < distance
    /\ LET next_lanelet == get_next_lanelet_within_route(current_lanelet, planner_data)
       IN  /\ next_lanelet.has_value
           /\ lanelets' = Append(lanelets, next_lanelet.value)
           /\ current_lanelet' = next_lanelet.value
           /\ length_' = length_ + getLaneletLength2d(planner_data, next_lanelet.value)
    /\ visited' = visited \cup {<<current_lanelet, length_>>}
    /\ UNCHANGED <<pc, outcome, result, baseVars, planner_data, lanelet, arc_length,
                   backward_distance, forward_distance, distance, backward_lanelets, ok>>

\* leaving that loop, and the return of get_lanelets_within_route (122, 63-71)
AfterExit ==
    /\ pc = "after_loop"
    /\ \/ ~(ok /\ length_ < distance)
       \/ ~get_next_lanelet_within_route(current_lanelet, planner_data).has_value
    /\ result' = backward_lanelets \o <<lanelet>> \o lanelets
    /\ outcome' = "returned"
    /\ pc' = "route_done"
    /\ UNCHANGED <<baseVars, routeVars>>

\* the node is shut down while a traversal runs: rclcpp::ok() turns false
Shutdown ==
    /\ pc \in {"up_to_loop", "after_loop"}
    /\ ok
    /\ ok' = FALSE
    /\ UNCHANGED <<pc, outcome, result, baseVars, planner_data, lanelet, arc_length,
                   backward_distance, forward_distance, distance, current_lanelet,
                   length_, lanelets, backward_lanelets, visited>>

NextRoute == RouteEnter \/ UpToStep \/ UpToExit \/ AfterStep \/ AfterExit \/ Shutdown

SpecRoute == InitRoute /\ [][NextRoute]_vars

---------------------------------------------------------------------------
(* Properties of get_lanelets_within_route (SpecRoute).                    *)

RouteDone == pc = "route_done"

\* b is a following lanelet of a in the routing graph
Connected(a, b) == b \in Elements(following(planner_data, a))

\* position of the queried lanelet in the returned sequence
Pivot == Len(backward_lanelets) + 1

RouteShape ==
    /\ outcome = "nullopt" <=> ~exists(planner_data.route_lanelets, lanelet)
    /\ outcome = "returned" =>
          /\ Len(result) >= Pivot
          /\ result[Pivot] = lanelet
          /\ \A i \in 1..Len(result) : result[i] \in planner_data.route_lanelets
          /\ \A i \in 1..(Len(result) - 1) : Connected(result[i], result[i + 1])

\* C11 as stated: nullopt exactly when lanelet is not in route_lanelets;
\* otherwise backward ++ [lanelet] ++ forward, all in route_lanelets, each
\* element followed by a following lanelet of it; and nowhere in the
\* returned sequence does a lanelet stand before a start lanelet or after a
\* goal lanelet.
C11_RouteSequenceStrict ==
    RouteDone =>
        /\ RouteShape
        /\ outcome = "returned" =>
              \A i \in 1..(Len(result) - 1) :
                  /\ result[i + 1] \notin planner_data.start_lanelets
                  /\ result[i] \notin planner_data.goal_lanelets

\* C11 (amended): the same shape; the backward part holds no lanelet before
\* a start lanelet (no element of backward ++ [lanelet] but the first is
\* preceded when it is a start lanelet) and the forward part holds no
\* lanelet after a goal lanelet.
C11_RouteSequence ==
    RouteDone =>
        /\ RouteShape
        /\ outcome = "returned" =>
              /\ \A i \in 1..(Pivot - 1) :
                    result[i + 1] \notin planner_data.start_lanelets
              /\ \A i \in Pivot..(Len(result) - 1) :
                    result[i] \notin planner_data.goal_lanelets

\* a returned sequence with lanelets on both sides of the queried one, that
\* stops at a start lanelet behind and at a goal lanelet ahead
C11_Witness ==
    /\ RouteDone /\ outcome = "returned" /\ ok
    /\ Pivot = 2 /\ Len(result) = 3
    /\ result[1] \in planner_data.start_lanelets
    /\ result[3] \in planner_data.goal_lanelets
    /\ get_previous_lanelet_within_route_NoStartTest(result[1], planner_data).has_value

\* sum of the lengths of the lanelets of seq
RECURSIVE TotalLength(_)
TotalLength(seq) ==
    IF seq = <<>> THEN 0
    ELSE getLaneletLength2d(planner_data, Head(seq)) + TotalLength(Tail(seq))

AtLoopHead == pc \in {"up_to_loop", "after_loop"}

\* C12: both traversal loops stop by themselves while rclcpp::ok() stays
\* true, for every finite distance and every routing graph, cyclic routes
\* and lanelets of length 0 included.  A loop stops by itself exactly when
\* it never comes back to a loop head with a current lanelet and an
\* accumulated length it has been at before (the iteration depends on
\* nothing else); it then returns because the length reached the distance or
\* no previous/next lanelet within the route exists, and with an empty list
\* when distance <= 0.
C12_TraversalsTerminate ==
    /\ (AtLoopHead /\ ok /\ length_ < distance) =>
          <<current_lanelet, length_>> \notin visited
    /\ (pc = "after_loop" /\ lanelets = <<>> /\ ok) =>
          /\ backward_distance - arc_length <= 0 => backward_lanelets = <<>>
          /\ \/ TotalLength(backward_lanelets) >= backward_distance - arc_length
             \/ ~get_previous_lanelet_within_route(
                    IF backward_lanelets = <<>> THEN lanelet ELSE backward_lanelets[1],
                    planner_data).has_value
    /\ (RouteDone /\ outcome = "returned" /\ ok) =>
          /\ distance <= 0 => Len(result) = Pivot
          /\ \/ TotalLength(SubSeq(result, Pivot + 1, Len(result))) >= distance
             \/ ~get_next_lanelet_within_route(result[Len(result)], planner_data).has_value

===========================================================================
